---- MODULE Spec2Model ----
(***************************************************************************)
(* Model of volo-thrift's pingpong server loop                             *)
(* (volo-thrift/src/transport/pingpong/server.rs, fn serve).               *)
(*                                                                         *)
(* One loop instance (one call of serve) runs per connection.  Every       *)
(* action below is one synchronous segment of serve, from one .await to    *)
(* the next.  The codec, the handler service, the shutdown notifier and    *)
(* the runtime's scheduler are the environment: their outcomes are drawn   *)
(* with \E.                                                                *)
(***************************************************************************)
EXTENDS Naturals, Sequences, FiniteSets

(* ----------------------------- bounds ---------------------------------- *)

\* Requests a connection served alone delivers; after these its stream only
\* ends, fails or stays silent.
MaxTurns == 2

\* Requests delivered in all when several connections are served at once.
MaxShared == 1

\* Capacity of one SERVER_CONTEXT_CACHE vector (scaled down).
Capacity == 2

\* Acquires of the pool scenario.
MaxHeld == 4

\* Connections (loop instances) and runtime worker threads.
Loops == {1, 2}
Threads == {1, 2}

\* Sequence ids a request may carry; 0 stands for "no sequence id".
SeqIds == {1, 2}

(* ----------------------------- state ----------------------------------- *)

VARIABLES
    conns,      \* the connections that are served in this run
    scen,       \* the pool scenario: contexts taken and not yet released, number
                \*   of acquires so far, and whether the releases have begun
    budget,     \* requests the peers will still deliver
    pc,         \* pc[l]: where loop l is suspended
    cx,         \* cx[l]: the ServerContext loop l owns, or NoCx
    msg,        \* msg[l]: what decode returned in this turn: the request's meta,
                \*         kind "Eof", "Transport" or "Protocol", or NoMsg
    sent,       \* sent[l]: meta of the envelope last handed to encoder.encode in this turn
    wire,       \* wire[l]: number of frames the encoder has written
    meta,       \* meta[l]: keys held by the connection's METAINFO scope
    cache,      \* cache[t]: SERVER_CONTEXT_CACHE of worker thread t
    cache0,     \* cache0[t]: length of cache[t] before the first acquire
    thr,        \* thr[l]: the worker thread loop l currently runs on
    exit_mark,  \* the shared AtomicBool
    notified,   \* the shutdown notification has fired
    shut,       \* shut[l]: shutdown was requested in this turn while l was "waiting"
                \*          in the select or "handling" a request, else "none"
    trace,      \* trace[l]: what loop l did in its current turn, in order
    seen,       \* seen[l]: the context the stat tracers were called with in this turn
    decoded,    \* decoded[l]: requests decoded so far
    twoway,     \* twoway[l]: of these, the ones that expect a reply
    cause       \* cause[l]: why loop l left the loop

vars == <<conns, scen, budget, pc, cx, msg, sent, wire, meta, cache, cache0, thr, exit_mark,
          notified, shut, trace, seen, decoded, twoway, cause>>

NoCx == [addr |-> "dropped"]
NoMsg == [kind |-> "none", seq |-> 0]

\* ServerContext::default()
DefaultCx ==
    [addr |-> "none", req_msg_type |-> "none", msg_type |-> "none", seq_id |-> 0,
     conn_reset |-> FALSE, process_start |-> FALSE, process_end |-> FALSE]

\* peer_addr: Option<Address>, an argument of serve
peer_addr(l) == IF l = 1 THEN "peer" ELSE "none"

(* --------------------------- context pool ------------------------------ *)

\* cache.pop().unwrap_or_default(): the context handed out
CachePopped(c) == IF Len(c) > 0 THEN c[Len(c)] ELSE DefaultCx

\* a pop that leaves the context in the vector
CacheRestKeep(c) == c

\* cache.pop(): what stays in the vector
CacheRest(c) == IF Len(c) > 0 THEN SubSeq(c, 1, Len(c) - 1) ELSE c

\* if let Some(peer_addr) = &peer_addr { cx.rpc_info.caller_mut().set_address(..) }
StampPeer(c, a) == IF a # "none" THEN [c EXCEPT !.addr = a] ELSE c

\* cx.reset(Default::default())
ResetCx(c) == DefaultCx

\* an off-by-one room test
HasRoomOffByOne(c) == Len(c) <= Capacity

\* if cache.len() < cache.capacity()
HasRoom(c) == Len(c) < Capacity

\* a release that pushes the context as the turn left it
CachePushNoReset(c, x) == IF HasRoom(c) THEN Append(c, x) ELSE c

\* a release that never drops
CachePushAlways(c, x) == Append(c, ResetCx(x))

\* the release at the end of a turn: reset and push, or drop
CachePush(c, x) == IF HasRoom(c) THEN Append(c, ResetCx(x)) ELSE c

(* ------------------------ per-turn decisions --------------------------- *)

\* cx.set_conn_reset_by_ttheader(true)
SetConnReset(c) == [c EXCEPT !.conn_reset = TRUE]

\* cx.transport.is_conn_reset()
IsConnReset(c) == c.conn_reset

\* the exit mark not consulted
CheckExitMarkIgnored(c, mark) == c

\* if exit_mark.load(Ordering::Relaxed) { cx.set_conn_reset_by_ttheader(true) }
CheckExitMark(c, mark) == IF mark THEN SetConnReset(c) ELSE c

\* the comparison inverted
NeedsReplyInverted(t) == t = "OneWay"

\* every request answered
NeedsReplyAlways(t) == TRUE

\* if req_msg_type != TMessageType::OneWay
NeedsReply(t) == t # "OneWay"

\* every result marked as a reply
RespMsgTypeReply(resp) == "Reply"

\* match resp { Ok(_) => Reply, Err(_) => Exception }
RespMsgType(resp) == IF resp = "Ok" THEN "Reply" ELSE "Exception"

\* ThriftMessage::mk_server_resp(&cx, ..): meta from the context
MkServerResp(c) == [kind |-> c.msg_type, seq |-> c.seq_id]

\* no error taken for a transport error
IsTransportNever(e) == FALSE

\* matches!(e, ThriftException::Transport(_))
IsTransport(e) == e = "Transport"

(* ------------------------------ Init ----------------------------------- *)

IdleContexts(n) == [i \in 1..n |-> DefaultCx]

NoScenario == [held |-> <<>>, taken |-> 0, releasing |-> FALSE]

InitCommon ==
    /\ scen = NoScenario
    /\ pc = [l \in Loops |-> "init"]
    /\ cx = [l \in Loops |-> NoCx]
    /\ msg = [l \in Loops |-> NoMsg]
    /\ sent = [l \in Loops |-> NoMsg]
    /\ wire = [l \in Loops |-> 0]
    /\ meta = [l \in Loops |-> {}]
    /\ thr = [l \in Loops |-> 1]
    /\ exit_mark = FALSE
    /\ notified = FALSE
    /\ shut = [l \in Loops |-> "none"]
    /\ trace = [l \in Loops |-> <<>>]
    /\ seen = [l \in Loops |-> NoCx]
    /\ decoded = [l \in Loops |-> 0]
    /\ twoway = [l \in Loops |-> 0]
    /\ cause = [l \in Loops |-> "none"]

\* one connection alone
Init ==
    /\ InitCommon
    /\ conns \in {{l} : l \in Loops}
    /\ budget = MaxTurns
    /\ cache \in [Threads -> {IdleContexts(n) : n \in 0..Capacity}]
    /\ cache0 = [t \in Threads |-> Len(cache[t])]

\* several connections on the same runtime, its caches all empty or all full
InitMulti ==
    /\ InitCommon
    /\ conns = Loops
    /\ budget = MaxShared
    /\ cache \in {[t \in Threads |-> IdleContexts(n)] : n \in {0, Capacity}}
    /\ cache0 = [t \in Threads |-> Len(cache[t])]

\* one connection alone, the caches of the runtime all empty or all full
InitLive ==
    /\ InitCommon
    /\ conns \in {{l} : l \in Loops}
    /\ budget = MaxTurns
    /\ cache \in {[t \in Threads |-> IdleContexts(n)] : n \in {0, Capacity}}
    /\ cache0 = [t \in Threads |-> Len(cache[t])]

\* the pool alone: acquires, then releases, on the cache of one thread
InitPool ==
    /\ InitCommon
    /\ conns = {}
    /\ budget = 0
    /\ cache \in {[t \in Threads |-> IdleContexts(n)] : n \in 0..Capacity}
    /\ cache0 = [t \in Threads |-> Len(cache[t])]

(* ----------------------------- actions --------------------------------- *)

\* lines 48-54, then the turn writes into the context it took
PoolAcquire(a, kind) ==
    /\ ~scen.releasing
    /\ scen.taken < MaxHeld
    /\ scen' = [scen EXCEPT
                  !.held = Append(@, [StampPeer(CachePopped(cache[1]), a) EXCEPT
                                         !.req_msg_type = kind, !.process_start = TRUE]),
                  !.taken = @ + 1]
    /\ cache' = [cache EXCEPT ![1] = CacheRest(cache[1])]
    /\ UNCHANGED <<conns, cache0, budget, pc, cx, msg, sent, wire, meta, thr, exit_mark, notified,
                   shut, trace, seen, decoded, twoway, cause>>

\* lines 176-182, for the context taken first
PoolRelease ==
    /\ scen.held # <<>>
    /\ scen' = [scen EXCEPT !.held = Tail(@), !.releasing = TRUE]
    /\ cache' = [cache EXCEPT ![1] = CachePush(cache[1], Head(scen.held))]
    /\ UNCHANGED <<conns, cache0, budget, pc, cx, msg, sent, wire, meta, thr, exit_mark, notified,
                   shut, trace, seen, decoded, twoway, cause>>

NextPool ==
    \/ \E a \in {"peer", "none"}, kind \in {"Call", "OneWay"} : PoolAcquire(a, kind)
    \/ PoolRelease

SpecPool == InitPool /\ [][NextPool]_vars

Log(l, evs) == trace' = [trace EXCEPT ![l] = trace[l] \o evs]

\* serve is called: METAINFO.scope(RefCell::new(MetaInfo::default()), ..)
Serve(l) ==
    /\ pc[l] = "init"
    /\ l \in conns
    /\ pc' = [pc EXCEPT ![l] = "idle"]
    /\ meta' = [meta EXCEPT ![l] = {}]
    /\ UNCHANGED <<conns, cache0, scen, budget, cx, msg, sent, wire, cache, thr, exit_mark, notified,
                   shut, trace, seen, decoded, twoway, cause>>

\* a loop head that is reached again after the loop was left
AcquireAfterBreak(l) ==
    /\ pc[l] \in {"idle", "terminated"}
    /\ cause[l] \in {"none", "encode_err"}
    /\ cx' = [cx EXCEPT ![l] = StampPeer(CachePopped(cache[thr[l]]), peer_addr(l))]
    /\ cache' = [cache EXCEPT ![thr[l]] = CacheRest(cache[thr[l]])]
    /\ pc' = [pc EXCEPT ![l] = "decoding"]
    /\ msg' = [msg EXCEPT ![l] = NoMsg]
    /\ sent' = [sent EXCEPT ![l] = NoMsg]
    /\ trace' = [trace EXCEPT ![l] = <<"decode">>]
    /\ shut' = [shut EXCEPT ![l] = "none"]
    /\ seen' = [seen EXCEPT ![l] = NoCx]
    /\ UNCHANGED <<conns, cache0, scen, budget, wire, meta, thr, exit_mark, notified, decoded, twoway, cause>>

\* a loop head that takes its context from one cache shared by all threads
AcquireShared(l) ==
    /\ pc[l] = "idle"
    /\ cx' = [cx EXCEPT ![l] = StampPeer(CachePopped(cache[1]), peer_addr(l))]
    /\ cache' = [cache EXCEPT ![1] = CacheRest(cache[1])]
    /\ pc' = [pc EXCEPT ![l] = "decoding"]
    /\ msg' = [msg EXCEPT ![l] = NoMsg]
    /\ sent' = [sent EXCEPT ![l] = NoMsg]
    /\ trace' = [trace EXCEPT ![l] = <<"decode">>]
    /\ shut' = [shut EXCEPT ![l] = "none"]
    /\ seen' = [seen EXCEPT ![l] = NoCx]
    /\ UNCHANGED <<conns, cache0, scen, budget, wire, meta, thr, exit_mark, notified, decoded, twoway, cause>>

\* top of the loop: take a context, stamp the peer address, enter the select
Acquire(l) ==
    /\ pc[l] = "idle"
    /\ cx' = [cx EXCEPT ![l] = StampPeer(CachePopped(cache[thr[l]]), peer_addr(l))]
    /\ cache' = [cache EXCEPT ![thr[l]] = CacheRest(cache[thr[l]])]
    /\ pc' = [pc EXCEPT ![l] = "decoding"]
    /\ msg' = [msg EXCEPT ![l] = NoMsg]
    /\ sent' = [sent EXCEPT ![l] = NoMsg]
    /\ trace' = [trace EXCEPT ![l] = <<"decode">>]
    /\ shut' = [shut EXCEPT ![l] = "none"]
    /\ seen' = [seen EXCEPT ![l] = NoCx]
    /\ UNCHANGED <<conns, cache0, scen, budget, wire, meta, thr, exit_mark, notified, decoded, twoway, cause>>

\* leaving the loop: the context is dropped with the future
Leave(l, why, evs) ==
    /\ pc' = [pc EXCEPT ![l] = "terminated"]
    /\ cx' = [cx EXCEPT ![l] = NoCx]
    /\ cause' = [cause EXCEPT ![l] = why]
    /\ Log(l, evs)

\* a select that also races the handler against the notification
NotifiedWinsAnywhere(l) ==
    /\ pc[l] \in {"decoding", "handling"}
    /\ notified
    /\ Leave(l, "notified", <<>>)
    /\ UNCHANGED <<conns, cache0, scen, budget, msg, sent, wire, meta, cache, thr, exit_mark, notified,
                   shut, seen, decoded, twoway>>

\* a notified branch that hands the context back before it returns
NotifiedWinsRecycle(l) ==
    /\ pc[l] = "decoding"
    /\ notified
    /\ Leave(l, "notified", <<>>)
    /\ cache' = [cache EXCEPT ![thr[l]] = CachePush(cache[thr[l]], cx[l])]
    /\ UNCHANGED <<conns, cache0, scen, budget, msg, sent, wire, meta, thr, exit_mark, notified,
                   shut, seen, decoded, twoway>>

\* select!: the notified branch wins
NotifiedWins(l) ==
    /\ pc[l] = "decoding"
    /\ notified
    /\ Leave(l, "notified", <<>>)
    /\ UNCHANGED <<conns, cache0, scen, budget, msg, sent, wire, meta, cache, thr, exit_mark, notified,
                   shut, seen, decoded, twoway>>

\* a turn end that also closes the connection after an exception reply
FinishCloseOnException(l, c, evs) ==
    IF IsConnReset(c) \/ c.msg_type = "Exception"
    THEN /\ Leave(l, "reset", evs)
         /\ UNCHANGED <<cache, seen>>
    ELSE /\ pc' = [pc EXCEPT ![l] = "idle"]
         /\ cx' = [cx EXCEPT ![l] = NoCx]
         /\ seen' = [seen EXCEPT ![l] = c]
         /\ cache' = [cache EXCEPT ![thr[l]] = CachePush(cache[thr[l]], c)]
         /\ Log(l, evs \o <<"stat", "clear", "leave_serve",
                            IF HasRoom(cache[thr[l]]) THEN "push" ELSE "drop">>)
         /\ UNCHANGED cause

\* a turn end that resets and releases the context before the tracers see it
FinishResetFirst(l, c, evs) ==
    IF IsConnReset(c)
    THEN /\ Leave(l, "reset", evs)
         /\ UNCHANGED <<cache, seen>>
    ELSE /\ pc' = [pc EXCEPT ![l] = "idle"]
         /\ cx' = [cx EXCEPT ![l] = NoCx]
         /\ seen' = [seen EXCEPT ![l] = ResetCx(c)]
         /\ cache' = [cache EXCEPT ![thr[l]] = CachePush(cache[thr[l]], c)]
         /\ Log(l, evs \o <<IF HasRoom(cache[thr[l]]) THEN "push" ELSE "drop",
                            "stat", "clear", "leave_serve">>)
         /\ UNCHANGED cause

\* a turn end that notifies leave_serve on the forced-reset exit too
FinishLeaveServeAlways(l, c, evs) ==
    IF IsConnReset(c)
    THEN /\ Leave(l, "reset", evs \o <<"leave_serve">>)
         /\ UNCHANGED <<cache, seen>>
    ELSE /\ pc' = [pc EXCEPT ![l] = "idle"]
         /\ cx' = [cx EXCEPT ![l] = NoCx]
         /\ seen' = [seen EXCEPT ![l] = c]
         /\ cache' = [cache EXCEPT ![thr[l]] = CachePush(cache[thr[l]], c)]
         /\ Log(l, evs \o <<"stat", "clear", "leave_serve",
                            IF HasRoom(cache[thr[l]]) THEN "push" ELSE "drop">>)
         /\ UNCHANGED cause

\* lines 123-125 and 169-183: after the reply (or at once, for a one-way request)
Finish(l, c, evs) ==
    IF IsConnReset(c)
    THEN /\ Leave(l, "reset", evs)
         /\ UNCHANGED <<cache, seen>>
    ELSE /\ pc' = [pc EXCEPT ![l] = "idle"]
         /\ cx' = [cx EXCEPT ![l] = NoCx]
         /\ seen' = [seen EXCEPT ![l] = c]
         /\ cache' = [cache EXCEPT ![thr[l]] = CachePush(cache[thr[l]], c)]
         /\ Log(l, evs \o <<"stat", "clear", "leave_serve",
                            IF HasRoom(cache[thr[l]]) THEN "push" ELSE "drop">>)
         /\ UNCHANGED cause

\* a turn end that leaves the METAINFO scope as it is
FinishMetaKept(c, m) == m

\* what Finish leaves in the METAINFO scope, m being its content before
FinishMeta(c, m) == IF IsConnReset(c) THEN m ELSE {}

\* a select that polls the notification first and takes it when it is ready
DecodeRequestBiased(l, kind, seq, rst) ==
    /\ pc[l] = "decoding"
    /\ ~notified
    /\ budget > 0
    /\ budget' = budget - 1
    /\ msg' = [msg EXCEPT ![l] = [kind |-> kind, seq |-> seq]]
    /\ cx' = [cx EXCEPT ![l] = [cx[l] EXCEPT !.req_msg_type = kind, !.seq_id = seq,
                                            !.conn_reset = rst, !.process_start = TRUE]]
    /\ decoded' = [decoded EXCEPT ![l] = decoded[l] + 1]
    /\ twoway' = [twoway EXCEPT ![l] = twoway[l] + IF kind = "OneWay" THEN 0 ELSE 1]
    /\ pc' = [pc EXCEPT ![l] = "handling"]
    /\ Log(l, <<"on_serve", "call">>)
    /\ UNCHANGED <<conns, cache0, scen, sent, wire, meta, cache, thr, exit_mark, notified,
                   shut, seen, cause>>

\* select!: decode wins with Ok(Some(request)); the handler is called
DecodeRequest(l, kind, seq, rst) ==
    /\ pc[l] = "decoding"
    /\ budget > 0
    /\ budget' = budget - 1
    /\ msg' = [msg EXCEPT ![l] = [kind |-> kind, seq |-> seq]]
    /\ cx' = [cx EXCEPT ![l] = [cx[l] EXCEPT !.req_msg_type = kind, !.seq_id = seq,
                                            !.conn_reset = rst, !.process_start = TRUE]]
    /\ decoded' = [decoded EXCEPT ![l] = decoded[l] + 1]
    /\ twoway' = [twoway EXCEPT ![l] = twoway[l] + IF kind = "OneWay" THEN 0 ELSE 1]
    /\ pc' = [pc EXCEPT ![l] = "handling"]
    /\ Log(l, <<"on_serve", "call">>)
    /\ UNCHANGED <<conns, cache0, scen, sent, wire, meta, cache, thr, exit_mark, notified,
                   shut, seen, cause>>

\* the event logged for the handler's result
Ret(resp) == IF resp = "Ok" THEN "ok" ELSE "err"

\* the event logged when the handler left keys in the METAINFO scope
Wrote(m) == IF m = {} THEN <<>> ELSE <<"meta">>

\* lines 92-125: with the handler's result in hand, reply unless one-way
AfterHandler(l, c1, resp, m) ==
    IF NeedsReply(c1.req_msg_type)
    THEN LET c2 == [c1 EXCEPT !.msg_type = RespMsgType(resp)]
         IN  /\ cx' = [cx EXCEPT ![l] = c2]
             /\ sent' = [sent EXCEPT ![l] = MkServerResp(c2)]
             /\ pc' = [pc EXCEPT ![l] = "encoding"]
             /\ meta' = [meta EXCEPT ![l] = m]
             /\ Log(l, <<Ret(resp)>> \o Wrote(m) \o <<"on_encode", "encode">>)
             /\ UNCHANGED <<cache, seen, cause>>
    ELSE /\ Finish(l, c1, <<Ret(resp)>> \o Wrote(m))
         /\ meta' = [meta EXCEPT ![l] = FinishMeta(c1, m)]
         /\ UNCHANGED sent

\* a handler result that closes the connection at once when the exit mark is set
HandlerReturnsAbort(l, resp, wrote) ==
    /\ pc[l] = "handling"
    /\ IF exit_mark
       THEN /\ Leave(l, "reset", <<Ret(resp)>>)
            /\ UNCHANGED <<sent, meta, cache, seen>>
       ELSE AfterHandler(l, [cx[l] EXCEPT !.process_end = TRUE], resp,
                         IF wrote THEN {"k"} ELSE {})
    /\ UNCHANGED <<conns, cache0, scen, budget, msg, wire, thr, exit_mark, notified, shut,
                   decoded, twoway>>

\* a handler result whose reply is handed to the encoder without awaiting it
HandlerReturnsDetached(l, resp, wrote) ==
    /\ pc[l] = "handling"
    /\ LET c1 == CheckExitMark([cx[l] EXCEPT !.process_end = TRUE], exit_mark)
           c2 == [c1 EXCEPT !.msg_type = RespMsgType(resp)]
       IN  /\ Finish(l, c2, <<Ret(resp), "on_encode", "encode">>)
           /\ meta' = [meta EXCEPT ![l] = FinishMeta(c2, IF wrote THEN {"k"} ELSE {})]
           /\ sent' = [sent EXCEPT ![l] = IF NeedsReply(c1.req_msg_type)
                                          THEN MkServerResp(c2) ELSE sent[l]]
    /\ UNCHANGED <<conns, cache0, scen, budget, msg, wire, thr, exit_mark, notified, shut,
                   decoded, twoway>>

\* service.call returns (lines 85-90), then AfterHandler
HandlerReturns(l, resp, wrote) ==
    /\ pc[l] = "handling"
    /\ AfterHandler(l, CheckExitMark([cx[l] EXCEPT !.process_end = TRUE], exit_mark),
                    resp, IF wrote THEN {"k"} ELSE {})
    /\ UNCHANGED <<conns, cache0, scen, budget, msg, wire, thr, exit_mark, notified, shut,
                   decoded, twoway>>

\* an encode whose failure is only logged, the turn ending as usual
EncodeReturnsRecycle(l, ok) ==
    /\ pc[l] = "encoding"
    /\ wire' = [wire EXCEPT ![l] = wire[l] + IF ok THEN 1 ELSE 0]
    /\ Finish(l, cx[l], <<"leave_encode">>)
    /\ meta' = [meta EXCEPT ![l] = FinishMeta(cx[l], meta[l])]
    /\ UNCHANGED <<conns, cache0, scen, budget, msg, sent, thr, exit_mark, notified, shut,
                   decoded, twoway>>

\* encoder.encode of the reply returns (lines 104-125)
EncodeReturns(l, ok) ==
    /\ pc[l] = "encoding"
    /\ IF ok
       THEN /\ wire' = [wire EXCEPT ![l] = wire[l] + 1]
            /\ Finish(l, cx[l], <<"leave_encode">>)
            /\ meta' = [meta EXCEPT ![l] = FinishMeta(cx[l], meta[l])]
       ELSE /\ Leave(l, "encode_err", <<"leave_encode", "stat">>)
            /\ seen' = [seen EXCEPT ![l] = cx[l]]
            /\ UNCHANGED <<wire, meta, cache>>
    /\ UNCHANGED <<conns, cache0, scen, budget, msg, sent, thr, exit_mark, notified, shut,
                   decoded, twoway>>

\* an end of stream that is reported to the stat tracers
DecodeEofTraced(l) ==
    /\ pc[l] = "decoding"
    /\ Leave(l, "eof", <<"on_serve", "stat">>)
    /\ msg' = [msg EXCEPT ![l] = [kind |-> "Eof", seq |-> 0]]
    /\ seen' = [seen EXCEPT ![l] = cx[l]]
    /\ UNCHANGED <<conns, cache0, scen, budget, sent, wire, meta, cache, thr, exit_mark, notified,
                   shut, decoded, twoway>>

\* select!: decode wins with Ok(None)
DecodeEof(l) ==
    /\ pc[l] = "decoding"
    /\ Leave(l, "eof", <<"on_serve">>)
    /\ msg' = [msg EXCEPT ![l] = [kind |-> "Eof", seq |-> 0]]
    /\ UNCHANGED <<conns, cache0, scen, budget, sent, wire, meta, cache, thr, exit_mark, notified,
                   shut, seen, decoded, twoway>>

\* select!: decode wins with Err(e) (lines 138-167)
DecodeErr(l, e) ==
    /\ pc[l] = "decoding"
    /\ LET c1 == SetConnReset([cx[l] EXCEPT !.msg_type = "Exception"])
       IN  IF ~IsTransport(e)
           THEN /\ cx' = [cx EXCEPT ![l] = c1]
                /\ sent' = [sent EXCEPT ![l] = MkServerResp(c1)]
                /\ pc' = [pc EXCEPT ![l] = "errencoding"]
                /\ Log(l, <<"on_serve", "encode">>)
                /\ UNCHANGED <<seen, cause>>
           ELSE /\ Leave(l, "decode_err", <<"on_serve", "stat">>)
                /\ seen' = [seen EXCEPT ![l] = c1]
                /\ UNCHANGED sent
    /\ msg' = [msg EXCEPT ![l] = [kind |-> e, seq |-> 0]]
    /\ UNCHANGED <<conns, cache0, scen, budget, wire, meta, cache, thr, exit_mark, notified,
                   shut, decoded, twoway>>

\* a best-effort encode that is tried again when it fails
ErrEncodeRetry(l, ok) ==
    /\ pc[l] = "errencoding"
    /\ IF ok
       THEN /\ wire' = [wire EXCEPT ![l] = wire[l] + 1]
            /\ Leave(l, "decode_err", <<"stat">>)
            /\ seen' = [seen EXCEPT ![l] = cx[l]]
       ELSE /\ Len(trace[l]) < 5
            /\ Log(l, <<"encode">>)
            /\ UNCHANGED <<wire, pc, cx, seen, cause>>
    /\ UNCHANGED <<conns, cache0, scen, budget, msg, sent, meta, cache, thr, exit_mark, notified,
                   shut, decoded, twoway>>

\* a best-effort encode after which the context is handed back to the cache
ErrEncodeReturnsRecycle(l, ok) ==
    /\ pc[l] = "errencoding"
    /\ wire' = [wire EXCEPT ![l] = wire[l] + IF ok THEN 1 ELSE 0]
    /\ Leave(l, "decode_err", <<"stat">>)
    /\ seen' = [seen EXCEPT ![l] = cx[l]]
    /\ cache' = [cache EXCEPT ![thr[l]] = CachePush(cache[thr[l]], cx[l])]
    /\ UNCHANGED <<conns, cache0, scen, budget, msg, sent, meta, thr, exit_mark, notified,
                   shut, decoded, twoway>>

\* a best-effort encode whose failure is reported to the stat tracers on its own
ErrEncodeReturnsTwice(l, ok) ==
    /\ pc[l] = "errencoding"
    /\ wire' = [wire EXCEPT ![l] = wire[l] + IF ok THEN 1 ELSE 0]
    /\ Leave(l, "decode_err", IF ok THEN <<"stat">> ELSE <<"stat", "stat">>)
    /\ seen' = [seen EXCEPT ![l] = cx[l]]
    /\ UNCHANGED <<conns, cache0, scen, budget, msg, sent, meta, cache, thr, exit_mark, notified,
                   shut, decoded, twoway>>

\* the best-effort encode of the exception envelope returns (lines 155-166)
ErrEncodeReturns(l, ok) ==
    /\ pc[l] = "errencoding"
    /\ wire' = [wire EXCEPT ![l] = wire[l] + IF ok THEN 1 ELSE 0]
    /\ Leave(l, "decode_err", <<"stat">>)
    /\ seen' = [seen EXCEPT ![l] = cx[l]]
    /\ UNCHANGED <<conns, cache0, scen, budget, msg, sent, meta, cache, thr, exit_mark, notified,
                   shut, decoded, twoway>>

(* --------------------------- environment ------------------------------- *)

\* the server sets the exit mark
SetExitMark ==
    /\ ~exit_mark
    /\ exit_mark' = TRUE
    /\ shut' = [l \in Loops |-> IF pc[l] = "handling" THEN "handling" ELSE shut[l]]
    /\ UNCHANGED <<conns, cache0, scen, budget, pc, cx, msg, sent, wire, meta, cache, thr, notified,
                   trace, seen, decoded, twoway, cause>>

\* the server notifies the waiters
Notify ==
    /\ ~notified
    /\ notified' = TRUE
    /\ shut' = [l \in Loops |-> CASE pc[l] = "handling" -> "handling"
                                    [] pc[l] = "decoding" -> "waiting"
                                    [] OTHER -> shut[l]]
    /\ UNCHANGED <<conns, cache0, scen, budget, pc, cx, msg, sent, wire, meta, cache, thr, exit_mark,
                   trace, seen, decoded, twoway, cause>>

\* a runtime that also moves a loop between the end of a turn and the next acquire
MigrateAnywhere(l, t) ==
    /\ pc[l] \in {"idle", "decoding", "handling", "encoding", "errencoding"}
    /\ thr[l] # t
    /\ thr' = [thr EXCEPT ![l] = t]
    /\ UNCHANGED <<conns, cache0, scen, budget, pc, cx, msg, sent, wire, meta, cache, exit_mark, notified,
                   shut, trace, seen, decoded, twoway, cause>>

\* the runtime resumes a suspended loop on another worker thread
Migrate(l, t) ==
    /\ pc[l] \in {"decoding", "handling", "encoding", "errencoding"}
    /\ thr[l] # t
    /\ thr' = [thr EXCEPT ![l] = t]
    /\ UNCHANGED <<conns, cache0, scen, budget, pc, cx, msg, sent, wire, meta, cache, exit_mark, notified,
                   shut, trace, seen, decoded, twoway, cause>>

(* ------------------------- specifications ------------------------------ *)

\* the steps of serve itself: the future is polled and runs to its next .await
Poll(l) ==
    \/ Serve(l)
    \/ Acquire(l)
    \/ NotifiedWins(l)
    \/ \E kind \in {"Call", "OneWay"}, seq \in SeqIds, rst \in BOOLEAN :
          DecodeRequest(l, kind, seq, rst)
    \/ DecodeEof(l)
    \/ \E e \in {"Transport", "Protocol"} : DecodeErr(l, e)
    \/ \E resp \in {"Ok", "Err"}, wrote \in BOOLEAN : HandlerReturns(l, resp, wrote)
    \/ \E ok \in BOOLEAN : EncodeReturns(l, ok)
    \/ \E ok \in BOOLEAN : ErrEncodeReturns(l, ok)

LoopStep(l) ==
    \/ Poll(l)
    \/ \E t \in Threads : Migrate(l, t)

Next ==
    \/ \E l \in Loops : LoopStep(l)
    \/ SetExitMark
    \/ Notify

Spec == Init /\ [][Next]_vars

SpecMulti == InitMulti /\ [][Next]_vars

\* one connection alone, every decode, handler call and encode it starts
\* returning in the end and the runtime polling the future when it is woken
SpecLive == InitLive /\ [][Next]_vars /\ \A l \in Loops : WF_vars(Poll(l))

(* ------------------------------ claims --------------------------------- *)

Count(s, e) == Cardinality({i \in 1..Len(s) : s[i] = e})
Has(s, e) == Count(s, e) > 0

\* the request of the current turn expects a reply
TwoWayTurn(l) == msg[l].kind = "Call"

\* the handler of the current turn has returned
Returned(l) == Has(trace[l], "ok") \/ Has(trace[l], "err")

\* C1: on a connection whose requests so far were all two-way, N decoded
\* requests have produced exactly N written replies whenever the loop is between
\* turns or has ended on end-of-stream; while the k-th request is with the
\* handler or the encoder, exactly k-1 replies are written (the k-th reply is
\* not before its handler returns, and is written before decode k+1 begins).
C1_ExactlyNReplies ==
    \A l \in Loops :
        twoway[l] = decoded[l] =>
            /\ pc[l] \in {"idle", "decoding"} => wire[l] = decoded[l]
            /\ pc[l] \in {"handling", "encoding"} => wire[l] = decoded[l] - 1
            /\ (pc[l] = "terminated" /\ cause[l] = "eof") => wire[l] = decoded[l]

C1_Witness ==
    \E l \in Loops :
        /\ pc[l] = "terminated" /\ cause[l] = "eof"
        /\ decoded[l] = MaxTurns /\ twoway[l] = MaxTurns /\ wire[l] = MaxTurns

\* C2: turns are strictly sequential: while a loop waits in the decode race
\* nothing of an earlier turn is pending (the turn holds the decode alone, every
\* reply owed is written), and no turn holds more than one decode, one handler
\* call or one reply encode.
C2_Sequential ==
    \A l \in Loops :
        /\ pc[l] = "decoding" =>
              /\ trace[l] = <<"decode">>
              /\ msg[l] = NoMsg /\ sent[l] = NoMsg
              /\ wire[l] = twoway[l]
        /\ Count(trace[l], "decode") <= 1
        /\ Count(trace[l], "call") <= 1
        /\ Count(trace[l], "encode") <= 1
        /\ Has(trace[l], "encode") /\ pc[l] \in {"idle", "decoding"} =>
              Has(trace[l], "leave_encode")

C2_Witness ==
    \E l \in Loops : pc[l] = "decoding" /\ decoded[l] >= 1 /\ twoway[l] >= 1

\* C3: a turn whose request is one-way never reaches encoder.encode, whatever
\* the handler returned and whether or not the exit mark is set.
C3_OneWayNoEncode ==
    \A l \in Loops :
        msg[l].kind = "OneWay" =>
            /\ ~Has(trace[l], "encode")
            /\ sent[l] = NoMsg
            /\ pc[l] # "encoding"
            /\ wire[l] = twoway[l]

C3_Witness ==
    \E l \in Loops :
        /\ msg[l].kind = "OneWay" /\ Has(trace[l], "err")
        /\ pc[l] = "terminated" /\ cause[l] = "reset" /\ exit_mark

\* C4: when shutdown is requested (notification or exit mark) while the handler
\* of a two-way request runs, the handler still returns and its reply is
\* handed to the encoder; the loop ends in that turn only after the reply was
\* written, or because the encode failed.
C4_ReplyDespiteShutdown ==
    \A l \in Loops :
        (shut[l] = "handling" /\ TwoWayTurn(l) /\ pc[l] # "handling") =>
            /\ Returned(l)
            /\ Count(trace[l], "encode") = 1
            /\ pc[l] = "terminated" => cause[l] \in {"reset", "encode_err"}
            /\ cause[l] = "reset" => wire[l] = twoway[l]

C4_Witness ==
    \E l \in Loops :
        /\ shut[l] = "handling" /\ TwoWayTurn(l) /\ exit_mark /\ notified
        /\ pc[l] = "terminated" /\ cause[l] = "reset" /\ wire[l] = twoway[l]

\* C5 as stated: once the notification has fired while the loop waits between
\* two requests, no further request is decoded and handed to the handler.
C5_NoDecodeAfterSignal ==
    [][\A l \in Loops :
          (shut[l] = "waiting" /\ pc[l] = "decoding" /\ decoded[l] >= 1)
              => pc'[l] # "handling"]_vars

\* C5 amended: the notification ends the loop only through the select: a loop
\* that ended on it did nothing in its last turn but start the race (no request
\* taken, no handler call, no encode), and every reply owed was written.
C5_NotifiedExitIsClean ==
    \A l \in Loops :
        cause[l] = "notified" =>
            /\ pc[l] = "terminated"
            /\ trace[l] = <<"decode">>
            /\ msg[l] = NoMsg /\ sent[l] = NoMsg
            /\ wire[l] = twoway[l]

C5_Witness ==
    \E l \in Loops :
        cause[l] = "notified" /\ shut[l] = "waiting" /\ decoded[l] >= 1

\* C6: once the handler of a two-way request has returned, exactly one envelope
\* has been handed to the encoder in that turn; it carries the request's
\* sequence id, and its kind is Exception after an error and Reply after a
\* success.
C6_ReplyKindAndSeq ==
    \A l \in Loops :
        (TwoWayTurn(l) /\ Returned(l)) =>
            /\ Count(trace[l], "encode") = 1
            /\ sent[l].seq = msg[l].seq
            /\ Has(trace[l], "err") => sent[l].kind = "Exception"
            /\ Has(trace[l], "ok") => sent[l].kind = "Reply"

C6_Witness ==
    \E l \in Loops :
        /\ TwoWayTurn(l) /\ Has(trace[l], "err") /\ pc[l] = "idle"
        /\ sent[l] = [kind |-> "Exception", seq |-> 2] /\ wire[l] = twoway[l]

\* C7: when the encode of an exception reply succeeds and the context's reset
\* flag is not set, the loop recycles the context and is back at the top of the
\* loop, as after a successful reply.
C7_AppErrorKeepsLoop ==
    [][\A l \in Loops :
          (/\ pc[l] = "encoding"
           /\ cx[l].msg_type = "Exception"
           /\ ~cx[l].conn_reset
           /\ wire'[l] = wire[l] + 1)
              => /\ pc'[l] = "idle"
                 /\ cause'[l] = "none"
                 /\ Has(trace'[l], "stat")
                 /\ Has(trace'[l], "push") \/ Has(trace'[l], "drop")]_vars

C7_Witness ==
    \E l \in Loops :
        /\ pc[l] = "idle" /\ TwoWayTurn(l) /\ Has(trace[l], "err")
        /\ Has(trace[l], "push") /\ sent[l].kind = "Exception"

\* C8: a protocol-class decode error leads to exactly one call of the encoder,
\* with an Exception envelope, to no handler call and to the end of the loop,
\* whether that encode succeeds or fails; at most one frame is written.
C8_ProtocolError ==
    \A l \in Loops :
        msg[l].kind = "Protocol" =>
            /\ pc[l] \in {"errencoding", "terminated"}
            /\ Count(trace[l], "encode") = 1
            /\ ~Has(trace[l], "call")
            /\ sent[l].kind = "Exception"
            /\ wire[l] \in {twoway[l], twoway[l] + 1}
            /\ pc[l] = "errencoding" => wire[l] = twoway[l]
            /\ pc[l] = "terminated" => cause[l] = "decode_err"

C8_Witness ==
    \E l \in Loops :
        /\ msg[l].kind = "Protocol" /\ pc[l] = "terminated"
        /\ wire[l] = twoway[l] /\ decoded[l] >= 1

\* C9: a transport-class decode error ends the loop with no call of the
\* encoder, no frame and no handler call.
C9_TransportError ==
    \A l \in Loops :
        msg[l].kind = "Transport" =>
            /\ pc[l] = "terminated" /\ cause[l] = "decode_err"
            /\ ~Has(trace[l], "encode")
            /\ ~Has(trace[l], "call")
            /\ sent[l] = NoMsg
            /\ wire[l] = twoway[l]

C9_Witness ==
    \E l \in Loops :
        msg[l].kind = "Transport" /\ pc[l] = "terminated" /\ decoded[l] >= 1

\* C10: no context cache ever holds more contexts than its capacity, whatever
\* the interleaving of the acquires and releases of the loops that share it.
C10_PoolWithinCapacity ==
    \A t \in Threads : Len(cache[t]) <= Capacity

C10_Witness ==
    \E l \in Loops :
        /\ pc[l] = "idle" /\ Has(trace[l], "drop")
        /\ Len(cache[thr[l]]) = Capacity
        /\ \E k \in Loops \ {l} : pc[k] \in {"decoding", "handling", "encoding"}

\* C11: every context held by a cache has all its fields at their defaults, and
\* the context a loop holds when it enters the decode race differs from the
\* default at most by the peer address stamped after the acquire.
C11_PoolAllDefault ==
    /\ \A t \in Threads : \A i \in 1..Len(cache[t]) : cache[t][i] = DefaultCx
    /\ \A l \in Loops :
          pc[l] = "decoding" => [cx[l] EXCEPT !.addr = "none"] = DefaultCx

C11_Witness ==
    \E l \in Loops :
        /\ pc[l] = "idle" /\ Has(trace[l], "push")
        /\ seen[l].addr = "peer" /\ seen[l].msg_type = "Exception"
        /\ seen[l].process_start /\ seen[l].process_end /\ seen[l].seq_id = 2
        /\ Len(cache[thr[l]]) = 1
        /\ CachePopped(cache[thr[l]]) = DefaultCx

\* C13 as stated: a turn whose handler was called has had the stat tracers
\* called exactly once by the time the loop is back at its head or has ended.
C13_StatOncePerHandledTurn ==
    \A l \in Loops :
        (Has(trace[l], "call") /\ pc[l] \in {"idle", "terminated"}) =>
            Count(trace[l], "stat") = 1

\* C14: a loop that has ended stays ended: none of its state changes any more
\* (no decode, handler call, encode, frame or stat-tracer call).
C14_TerminatedIsAbsorbing ==
    [][\A l \in Loops :
          pc[l] = "terminated" =>
              /\ pc'[l] = "terminated"
              /\ trace'[l] = trace[l]
              /\ wire'[l] = wire[l]
              /\ sent'[l] = sent[l]
              /\ msg'[l] = msg[l]
              /\ seen'[l] = seen[l]
              /\ cx'[l] = cx[l]
              /\ decoded'[l] = decoded[l]
              /\ cause'[l] = cause[l]]_vars

C14_Witness ==
    \E l \in Loops :
        /\ pc[l] = "terminated" /\ cause[l] = "encode_err"
        /\ budget > 0 /\ notified /\ exit_mark

\* C12: more acquires than the capacity exhaust the cache, so that the
\* acquires beyond it construct their context; once as many releases have
\* followed, the cache holds exactly Capacity contexts (the others were dropped).
C12_PoolScenario ==
    /\ (~scen.releasing /\ scen.taken >= Capacity) => cache[1] = <<>>
    /\ (scen.releasing /\ scen.held = <<>> /\ scen.taken > Capacity) =>
           Len(cache[1]) = Capacity

C12_Witness ==
    /\ scen.releasing /\ scen.held = <<>>
    /\ scen.taken = Capacity + 1
    /\ Len(cache[1]) = Capacity

\* C15: a two-way request whose handler returns with the exit mark set goes on
\* to the encoder with the reset flag set; and when the encode of a reply
\* returns with the reset flag set, the loop ends (on the reset if the frame was
\* written) without recycling the context into any cache.
C15_ForcedResetAfterReply ==
    [][\A l \in Loops :
          /\ (pc[l] = "handling" /\ msg[l].kind = "Call" /\ exit_mark
                 /\ pc'[l] # "handling")
                => /\ pc'[l] = "encoding"
                   /\ cx'[l].conn_reset
                   /\ Count(trace'[l], "encode") = 1
                   /\ cache' = cache
          /\ (pc[l] = "encoding" /\ cx[l].conn_reset /\ pc'[l] # "encoding")
                => /\ pc'[l] = "terminated"
                   /\ cause'[l] \in {"reset", "encode_err"}
                   /\ wire'[l] = wire[l] + 1 => cause'[l] = "reset"
                   /\ cache' = cache
                   /\ ~Has(trace'[l], "push") /\ ~Has(trace'[l], "drop")]_vars

C15_Witness ==
    \E l \in Loops :
        /\ pc[l] = "terminated" /\ cause[l] = "reset" /\ TwoWayTurn(l)
        /\ ~exit_mark /\ ~notified
        /\ decoded[l] = 2 /\ wire[l] = twoway[l]

\* C16: when the encode of a reply fails, the stat tracers are called once, with
\* the turn's context, and the loop ends: the METAINFO scope and the caches are
\* left as they were, leave_serve is not fired, the context is not released.
C16_EncodeFailure ==
    [][\A l \in Loops :
          (pc[l] = "encoding" /\ pc'[l] # "encoding" /\ wire'[l] = wire[l])
             => /\ pc'[l] = "terminated"
                /\ cause'[l] = "encode_err"
                /\ Count(trace'[l], "stat") = 1
                /\ seen'[l] = cx[l]
                /\ meta'[l] = meta[l]
                /\ cache' = cache
                /\ ~Has(trace'[l], "clear")
                /\ ~Has(trace'[l], "leave_serve")
                /\ ~Has(trace'[l], "push") /\ ~Has(trace'[l], "drop")]_vars

C16_Witness ==
    \E l \in Loops :
        /\ pc[l] = "terminated" /\ cause[l] = "encode_err"
        /\ meta[l] = {"k"} /\ seen[l].msg_type = "Reply" /\ budget > 0

\* C17: a loop back at its head after a turn did, last and in this order: the
\* stat tracers (once, with the context as the turn left it), the clearing of
\* the METAINFO scope, leave_serve, the reset and release of the context; and
\* the stat tracers are never called with a context that was already reset.
C17_RecyclingOrder ==
    \A l \in Loops :
        /\ (pc[l] = "idle" /\ trace[l] # <<>>) =>
              LET n == Len(trace[l]) IN
              /\ n >= 4
              /\ SubSeq(trace[l], n - 3, n - 1) = <<"stat", "clear", "leave_serve">>
              /\ trace[l][n] \in {"push", "drop"}
              /\ Count(trace[l], "stat") = 1
              /\ seen[l].process_start /\ seen[l].process_end
              /\ seen[l].req_msg_type = msg[l].kind
              /\ seen[l].seq_id = msg[l].seq
              /\ meta[l] = {}
              /\ cx[l] = NoCx
        /\ seen[l] # NoCx => seen[l] # DefaultCx

C17_Witness ==
    \E l \in Loops :
        /\ pc[l] = "idle" /\ Has(trace[l], "drop") /\ Has(trace[l], "meta")
        /\ seen[l].msg_type = "Reply" /\ decoded[l] = 2

\* C18: the METAINFO scope of a loop is empty whenever the loop is at its head
\* or in the decode race, whatever the turn before left in it.
C18_MetaEmptyAtTurnStart ==
    \A l \in Loops : pc[l] \in {"idle", "decoding"} => meta[l] = {}

C18_Witness ==
    \E l \in Loops :
        /\ pc[l] = "idle" /\ Has(trace[l], "meta") /\ meta[l] = {}
        /\ msg[l].kind = "OneWay"

\* C19: once the handler of a one-way request has returned, the stat
\* tracers were called, the context was recycled and the loop is at its head.
C19_OneWayAlwaysRecycles ==
    \A l \in Loops :
        (msg[l].kind = "OneWay" /\ Returned(l)) =>
            /\ pc[l] = "idle"
            /\ Count(trace[l], "stat") = 1
            /\ Has(trace[l], "push") \/ Has(trace[l], "drop")

\* C20: the step by which a loop ends on the notification changes nothing
\* else: it is taken from the decode race of a turn that did nothing yet, and
\* leaves the caches, the frames written, the METAINFO scopes and the tracers'
\* view as they were; the context is dropped, not released.
C20_NotifiedExitNoEffects ==
    [][\A l \in Loops :
          (cause'[l] = "notified" /\ cause[l] # "notified")
             => /\ pc[l] = "decoding"
                /\ trace[l] = <<"decode">> /\ trace'[l] = trace[l]
                /\ cache' = cache
                /\ wire' = wire
                /\ meta' = meta
                /\ seen'[l] = NoCx
                /\ sent'[l] = NoMsg /\ msg'[l] = NoMsg
                /\ cx'[l] = NoCx
                /\ decoded' = decoded]_vars

C20_Witness ==
    \E l \in Loops :
        /\ pc[l] = "terminated" /\ cause[l] = "notified"
        /\ shut[l] = "none" /\ ~exit_mark
        /\ decoded[l] >= 1 /\ cache[thr[l]] = <<>>

\* the positions of event e in the turn's log
At(s, e) == {i \in 1..Len(s) : s[i] = e}

\* C21: a loop whose decode returned the clean end of the stream has ended, on
\* that cause, and did in that turn no handler call, no encode and no stat
\* tracer call; no frame was written.
C21_EofTerminatesQuietly ==
    \A l \in Loops :
        msg[l].kind = "Eof" =>
            /\ pc[l] = "terminated" /\ cause[l] = "eof"
            /\ ~Has(trace[l], "call")
            /\ ~Has(trace[l], "encode")
            /\ ~Has(trace[l], "stat")
            /\ seen[l] = NoCx /\ sent[l] = NoMsg
            /\ wire[l] = twoway[l]

C21_Witness ==
    \E l \in Loops :
        /\ msg[l].kind = "Eof" /\ pc[l] = "terminated"
        /\ decoded[l] = 1 /\ twoway[l] = 0 /\ budget > 0

\* C22: whenever a loop waits in the decode race with the notification fired
\* and a request deliverable, both branches of the select can be taken: the
\* loop can end on the notification, and it can take the request to the handler.
C22_RaceHasNoBias ==
    \A l \in Loops :
        (pc[l] = "decoding" /\ notified /\ budget > 0) =>
            /\ ENABLED NotifiedWins(l)
            /\ ENABLED (\E kind \in {"Call", "OneWay"}, seq \in SeqIds, rst \in BOOLEAN :
                           DecodeRequest(l, kind, seq, rst))

C22_Witness ==
    \E l \in Loops :
        /\ pc[l] = "handling" /\ shut[l] = "waiting" /\ notified
        /\ decoded[l] = 2

\* C23: a loop back at its head after a turn fired leave_serve exactly once in
\* that turn, after the stat tracers and the METAINFO clear and before the
\* release of the context; in every other position of a turn, and in a loop
\* that has ended, leave_serve was not fired in the turn.
C23_LeaveServeOnCleanTurn ==
    \A l \in Loops :
        /\ (pc[l] = "idle" /\ trace[l] # <<>>) =>
              /\ Count(trace[l], "leave_serve") = 1
              /\ \A i \in At(trace[l], "leave_serve") :
                    /\ \A j \in At(trace[l], "stat") \cup At(trace[l], "clear") : j < i
                    /\ \A j \in At(trace[l], "push") \cup At(trace[l], "drop") : i < j
              /\ Count(trace[l], "stat") = 1 /\ Count(trace[l], "clear") = 1
              /\ Count(trace[l], "push") + Count(trace[l], "drop") = 1
        /\ pc[l] # "idle" => ~Has(trace[l], "leave_serve")

C23_Witness ==
    \E l \in Loops :
        /\ pc[l] = "terminated" /\ cause[l] = "reset" /\ Has(trace[l], "leave_encode")
        /\ ~Has(trace[l], "leave_serve") /\ decoded[l] = 2 /\ wire[l] = 2

\* C24: every call of encoder.encode in a turn is preceded by on_encode, and
\* once the encoder has returned, followed by one leave_encode; a turn without
\* an encode has neither.
C24_EncodeInstrumented ==
    \A l \in Loops :
        /\ Count(trace[l], "on_encode") = Count(trace[l], "encode")
        /\ pc[l] \notin {"encoding", "errencoding"} =>
              Count(trace[l], "leave_encode") = Count(trace[l], "encode")

\* the positions of a loop between its acquire and the end of its turn
MidTurn == {"decoding", "handling", "encoding", "errencoding"}

C26_ContextDiscardedOnExit ==
    [][\A l \in Loops :
          (pc[l] \in MidTurn /\ pc'[l] # "idle") =>
             /\ cache' = cache
             /\ pc'[l] = "terminated" =>
                   /\ cx'[l] = NoCx
                   /\ cause'[l] \in {"notified", "eof", "decode_err", "encode_err", "reset"}
                   /\ ~Has(trace'[l], "push") /\ ~Has(trace'[l], "drop")]_vars

C26_Witness ==
    \E l \in Loops :
        /\ pc[l] = "terminated" /\ cause[l] = "decode_err" /\ msg[l].kind = "Protocol"
        /\ wire[l] = twoway[l] + 1 /\ cx[l] = NoCx
        /\ Len(cache[thr[l]]) = 1 /\ decoded[l] = 0

\* C28: the stat tracers are called at most once in a turn, on every path, and
\* exactly once in a turn that ended on a decode error (whether or not the
\* exception frame could be sent), on an encode failure or cleanly.
C28_StatAtMostOnce ==
    \A l \in Loops :
        /\ Count(trace[l], "stat") <= 1
        /\ cause[l] \in {"decode_err", "encode_err"} => Count(trace[l], "stat") = 1
        /\ (pc[l] = "idle" /\ trace[l] # <<>>) => Count(trace[l], "stat") = 1

C28_Witness ==
    \E l \in Loops :
        /\ msg[l].kind = "Protocol" /\ pc[l] = "terminated"
        /\ Count(trace[l], "encode") = 1 /\ wire[l] = twoway[l]
        /\ Count(trace[l], "stat") = 1 /\ seen[l].msg_type = "Exception"

\* the loops that take a context in this step, and those that give theirs up
Takers == {l \in Loops : cx[l] = NoCx /\ cx'[l] # NoCx}
Givers == {l \in Loops : cx[l] # NoCx /\ cx'[l] = NoCx}

\* C30: a context changes hands whole: a step that takes a context from a
\* cache shortens that cache by one and hands the context to exactly one loop,
\* which runs on that thread; a step that lengthens a cache lengthens it by one
\* and takes the context from exactly one loop; a loop gets a context only at
\* its loop head, and no step moves two contexts.
C30_OneOwner ==
    [][/\ Cardinality(Takers) + Cardinality(Givers) <= 1
       /\ \A t \in Threads :
             /\ Len(cache'[t]) < Len(cache[t]) =>
                   /\ Len(cache'[t]) = Len(cache[t]) - 1
                   /\ \E l \in Takers :
                         /\ thr[l] = t
                         /\ [cx'[l] EXCEPT !.addr = "none"] = cache[t][Len(cache[t])]
             /\ Len(cache'[t]) > Len(cache[t]) =>
                   /\ Len(cache'[t]) = Len(cache[t]) + 1
                   /\ \E l \in Givers : thr[l] = t
       /\ \A l \in Takers :
             /\ pc[l] = "idle"
             /\ Len(cache'[thr[l]]) = IF cache[thr[l]] = <<>> THEN 0
                                      ELSE Len(cache[thr[l]]) - 1
             /\ \A u \in Threads \ {thr[l]} : cache'[u] = cache[u]]_vars

C30_Witness ==
    /\ pc[1] = "handling" /\ pc[2] = "decoding"
    /\ thr[1] = 1 /\ thr[2] = 1
    /\ Len(cache[1]) = Capacity - 2 /\ Len(cache[2]) = Capacity

\* every loop that was started has ended
AllTerminated == \A l \in conns : pc[l] = "terminated"

\* C27: once the exit mark is set and the notification has fired, every loop
\* ends in the end; and a handler call that runs with the exit mark set is the
\* loop's last (the loop never returns to its head after it), so at most one
\* handler call is started after the exit mark was set.
C27_ShutdownHonoured ==
    /\ (exit_mark /\ notified) ~> AllTerminated
    /\ \A l \in Loops :
          []((exit_mark /\ pc[l] = "handling") => [](pc[l] \notin {"idle", "decoding"}))

C27_Witness ==
    \E l \in Loops :
        /\ exit_mark /\ notified /\ shut[l] = "none"
        /\ pc[l] = "terminated" /\ cause[l] = "reset" /\ Has(trace[l], "call")
        /\ decoded[l] = 1 /\ budget > 0

\* the larger and the smaller of two numbers
Max(a, b) == IF a >= b THEN a ELSE b
Min(a, b) == IF a <= b THEN a ELSE b

\* the contexts held by all caches together, n[t] being the number held by t
RECURSIVE SumOver(_, _)
SumOver(n, T) ==
    IF T = {} THEN 0
    ELSE LET t == CHOOSE x \in T : TRUE IN n[t] + SumOver(n, T \ {t})

Total(n) == SumOver(n, Threads)

====
